---- MODULE Spec2Model ----
(***************************************************************************)
(* A model of py_alarm.py, the terminal pomodoro timer: start-up           *)
(* validation, the terminal session (setup_terminal / reset_terminal),     *)
(* the SIGINT and SIGWINCH handlers, main_loop with its three phases       *)
(* (countdown, run_sound, reset_loop), the PauseObject shared between the  *)
(* render loop and pause_thread, and the reset-phase input_thread.         *)
(*                                                                         *)
(* Time is a discrete clock `now` counted in refresh ticks: one            *)
(* time.sleep(REFRESH_RATE) of the main thread advances it by one.  Every   *)
(* other statement takes no time.  A minute is TicksPerMinute ticks.       *)
(*                                                                         *)
(* Four specifications share the actions:                                  *)
(*   Spec       the whole process, from parse_args to process exit;        *)
(*   SpecCycle  main_loop with its threads, started from the state main()  *)
(*              has reached when main_loop begins, over more countdowns;   *)
(*   SpecPause  one countdown with its pause listener, started from the    *)
(*              same state, with more typed lines and end-of-file;         *)
(*   SpecResize main_loop with its threads and SIGWINCH, from the same     *)
(*              state.                                                     *)
(***************************************************************************)
EXTENDS Integers, Sequences, FiniteSets, TLC

(***************************************************************************)
(* Bounds of the model.                                                    *)
(***************************************************************************)
\* clock horizon of Spec (ticks)
MaxNow == 4
\* clock horizon of SpecCycle (ticks)
MaxNowCycle == 7
\* clock horizon of SpecPause (ticks)
MaxNowPause == 5
\* lines the user types in a run of Spec
MaxLines == 1
\* lines the user types in a run of SpecCycle
MaxLinesCycle == 2
\* lines the user types in a run of SpecPause
MaxLinesPause == 2
\* countdowns started in a run of Spec
MaxCountdowns == 2
\* countdowns started in a run of SpecCycle
MaxCountdownsCycle == 3
\* SIGINTs delivered in one run
MaxSigints == 2
\* reads of the pause listener that return at end-of-file
MaxEofReads == 2
\* SIGWINCHs delivered in one run
MaxResizes == 1
\* refresh ticks in a minute (60 / REFRESH_RATE = 1200 in the program)
TicksPerMinute == 1

\* the positional arguments tried; <<>> is "no positional argument"
CountdownArgs == {<<>>, <<0>>, <<1>>}
\* the configured durations SpecCycle runs
CycleCountdownArgs == {<<25, 5>>, <<0>>, <<0, 1>>, <<1, 0>>}
\* the positional arguments of the countdown SpecPause runs
PauseCountdownArgs == {<<3>>, <<25>>}
\* the configured durations SpecResize runs
ResizeCountdownArgs == {<<0>>, <<1>>}
\* default=cycle((25, 5))
DefaultCountdowns == <<25, 5>>
\* values get_terminal_size() may return (identifiers of a width/height pair)
Sizes == {1, 2}

VARIABLES
    scope,              \* "run" (Spec), "cycle" (SpecCycle), "pause" (SpecPause)
                        \* or "resize" (SpecResize): selects the bounds
    \* ---- main thread and process
    mpc,                \* position of the main thread's own code
    frames,             \* active calls of exit(), innermost last: [code, pos]
    exited,             \* the process has ended
    exitCode,           \* its exit status (-1 while running)
    now,                \* wall clock, in ticks
    \* ---- configuration (args) and platform
    args,               \* [sound_ok]: args.sound_path names an existing file
    os_handler,         \* "callable" or "none" (check_os's result)
    countdowns,         \* the sequence behind args.countdowns (a cycle)
    cycPos,             \* items already taken from the cycle
    \* ---- terminal session and module globals
    term,               \* [alt, cursor, echo]: the terminal's mode
    reset_bound,        \* reset_terminal and exit_ are bound in main()
    TERMINAL_SIZE,      \* <<>> (None) or <<s>>: TERMINAL_WIDTH/TERMINAL_HEIGHT
    CHANGED,            \* the redraw flag
    sigintInstalled,    \* signal.signal(SIGINT, exit_) has run
    sigwinchInstalled,  \* signal.signal(SIGWINCH, resize_handler) has run
    \* ---- countdown() locals
    minutes_total,
    start_time,
    elapsed,
    branch,             \* the branch poll() took: "paused" or "running"
    cicRet,             \* where clear_if_changed() returns to
    \* ---- pause trackers and listeners, one per countdown started
    pobj,               \* k -> PauseObject
    lpc,                \* k -> position of pause_thread(pobj[k])
    \* ---- standard input and the reset phase
    stdin,              \* lines waiting in the tty queue (each a tag)
    eof,                \* standard input is at end-of-file
    typed,              \* lines typed so far
    input_list,         \* reset_loop's input_list
    ipc,                \* position of input_thread
    promptShown,        \* the current reset loop has printed its prompt
    \* ---- history (observers of the run, read by no action's guard)
    resizes,            \* SIGWINCHs delivered
    sigints,            \* SIGINTs delivered
    resetCalls,         \* calls of reset_terminal
    excRaised,          \* "none", or where an Exception reached main()'s handler
    msgWritten,         \* 'Exception was raised' has been written
    handlerRaised,      \* main()'s except block itself raised
    startupFail,        \* "none" or the start-up validation that failed
    setupCalled,        \* setup_terminal() has been entered
    intInCountdown,     \* a SIGINT was delivered while countdown() was running
    rendersAfterInt,    \* a render step ran after a SIGINT handler had started
    cdLog,              \* minutes_total of each countdown started, in order
    cdDone,             \* countdowns completed
    soundDone,          \* run_sound calls returned
    resetDone,          \* reset loops left
    ackTag,             \* tag of the line that ended the last reset loop
    hPausedAt,          \* <<>> or <<t>>: when the current pause was toggled on
    hPauseSum,          \* wall-clock length of all finished pauses
    hPairs,             \* pauses toggled on so far
    hQuiet,             \* no toggle step since the last poll() began
    hUnpaused,          \* unpaused wall-clock time at the last elapsed reading
    eofReads,           \* times the listener's readline() has returned at EOF
    hToggleAfterEof,    \* the listener toggled after that
    hBlank,             \* the render loop cleared the screen and no time
                        \* line has been printed since
    hPendingResize,     \* a SIGWINCH was delivered and no clear has used the
                        \* size it recorded yet
    cicClears,          \* screen clears of clear_if_changed() since the last
                        \* call of resize_handler
    hSigFor,            \* the transition the pending signal stands for:
                        \* "none", "pause" or "resume"
    hLostSignal,        \* a toggle's signal overwrote one not yet consumed
    hMisbooked          \* a consumed signal was booked as the other transition

mainVars  == <<mpc, frames, exited, exitCode, now>>
cfgVars   == <<args, os_handler, countdowns, cycPos>>
termVars  == <<term, reset_bound, TERMINAL_SIZE, CHANGED>>
sigVars   == <<sigintInstalled, sigwinchInstalled>>
cdVars    == <<minutes_total, start_time, elapsed, branch, cicRet>>
pauseVars == <<pobj, lpc>>
inVars    == <<stdin, eof, typed, input_list, ipc, promptShown>>
sigHist   == <<resizes, sigints, intInCountdown, rendersAfterInt>>
excHist   == <<resetCalls, excRaised, msgWritten, handlerRaised, startupFail,
               setupCalled>>
loopHist  == <<cdLog, cdDone, soundDone, resetDone, ackTag>>
pauseHist == <<hPausedAt, hPauseSum, hPairs, hQuiet, hUnpaused, eofReads,
               hToggleAfterEof>>
histVars  == <<sigHist, excHist, loopHist, pauseHist>>
resizeHist == <<hBlank, hPendingResize, cicClears>>
signalHist == <<hSigFor, hLostSignal, hMisbooked>>
obsVars   == <<resizeHist, signalHist>>
vars == <<scope, mainVars, cfgVars, termVars, sigVars, cdVars, pauseVars,
          inVars, histVars, obsVars>>

Horizon ==
    IF scope = "pause" THEN MaxNowPause
    ELSE IF scope = "cycle" THEN MaxNowCycle ELSE MaxNow
LineBudget ==
    IF scope = "pause" THEN MaxLinesPause
    ELSE IF scope = "cycle" THEN MaxLinesCycle ELSE MaxLines
CountdownBudget == IF scope = "cycle" THEN MaxCountdownsCycle ELSE MaxCountdowns
\* the countdowns any run can start
Countdowns ==
    1..(IF MaxCountdownsCycle > MaxCountdowns THEN MaxCountdownsCycle
        ELSE MaxCountdowns)
\* the observers of the pause arithmetic are kept in SpecPause only
Observed == scope = "pause"
\* the observers of the redraw flag are kept in SpecResize only
RedrawObserved == scope = "resize"

(***************************************************************************)
(* Data                                                                    *)
(***************************************************************************)
\* PauseObject.__init__
FreshPause ==
    [paused |-> FALSE, state_changed |-> FALSE, current_pause_time |-> 0,
     total_pause_time |-> 0, pause_start |-> <<>>, alive |-> TRUE]

\* PauseObject.pause_time
pause_time(o) ==
    IF o.paused THEN o.current_pause_time + o.total_pause_time
    ELSE o.total_pause_time

\* upper_limit = minutes_total * 60, in ticks
upper_limit(m) == m * TicksPerMinute

\* The terminal before setup_terminal()
TermNormal == [alt |-> FALSE, cursor |-> "shown", echo |-> TRUE]

\* An iterator that keeps yielding its last item once the values are used up
CycleItemNoWrap(vals, k) == vals[IF k < Len(vals) THEN k + 1 ELSE Len(vals)]

\* The k-th item (k = 0, 1, ...) itertools.cycle(vals) yields
CycleItem(vals, k) == vals[(k % Len(vals)) + 1]

\* The position of the main thread is inside countdown()
CountdownPcs ==
    {"cd_init", "poll", "event", "event_clear", "bookkeep", "current",
     "elapsed", "print", "sleep", "test"}
InCountdown ==
    \/ mpc \in CountdownPcs
    \/ mpc \in {"cic_test", "cic_clear", "cic_reset"} /\ cicRet \in {"cd_init", "test"}

\* The main thread runs its own code: the process lives and no exit() is active
MainRuns == ~exited /\ frames = <<>>

\* The process ends with status c
Die(c) == exited' = TRUE /\ exitCode' = c

(***************************************************************************)
(* Initial states                                                          *)
(***************************************************************************)
InitCommon ==
    /\ frames = <<>> /\ exited = FALSE /\ exitCode = -1 /\ now = 0
    /\ cycPos = 0
    /\ minutes_total = 0 /\ start_time = 0 /\ elapsed = 0
    /\ branch = "running" /\ cicRet = "cd_init"
    /\ pobj = [k \in Countdowns |-> FreshPause]
    /\ lpc = [k \in Countdowns |-> "unborn"]
    /\ stdin = <<>> /\ eof = FALSE /\ typed = 0
    /\ input_list = <<>> /\ ipc = "none" /\ promptShown = FALSE
    /\ resizes = 0 /\ sigints = 0 /\ resetCalls = 0
    /\ excRaised = "none" /\ msgWritten = FALSE /\ handlerRaised = FALSE
    /\ startupFail = "none"
    /\ intInCountdown = FALSE /\ rendersAfterInt = FALSE
    /\ cdLog = <<>> /\ cdDone = 0 /\ soundDone = 0 /\ resetDone = 0
    /\ ackTag = 0
    /\ hPausedAt = <<>> /\ hPauseSum = 0 /\ hPairs = 0 /\ hQuiet = TRUE
    /\ hUnpaused = 0 /\ eofReads = 0 /\ hToggleAfterEof = FALSE
    /\ hBlank = FALSE /\ hPendingResize = FALSE /\ cicClears = 0
    /\ hSigFor = "none" /\ hLostSignal = FALSE /\ hMisbooked = FALSE

\* The process as it starts: module globals as lines 57-59 set them
Init ==
    /\ InitCommon
    /\ scope = "run"
    /\ mpc = "parse"
    /\ args = [sound_ok |-> FALSE] /\ os_handler = "none"
    /\ countdowns = <<>>
    /\ term = TermNormal /\ reset_bound = FALSE
    /\ TERMINAL_SIZE = <<>> /\ CHANGED = FALSE
    /\ sigintInstalled = FALSE /\ sigwinchInstalled = FALSE
    /\ setupCalled = FALSE

(***************************************************************************)
(* Start-up: build_parser().parse_args(), check_tty(), check_os()          *)
(***************************************************************************)
\* An exception that reaches the top of the interpreter before main()'s try
\* block: traceback, exit status 1
StartupDie(kind, c) ==
    /\ Die(c)
    /\ startupFail' = kind
    /\ UNCHANGED <<obsVars, mpc, frames, now, cfgVars, termVars, sigVars,
                   cdVars, pauseVars, inVars, sigHist, resetCalls, excRaised,
                   msgWritten, handlerRaised, setupCalled, loopHist, pauseHist,
                   scope>>

\* What build_parser().parse_args() does with its inputs:
\*   env    PYALARM_VOLUME: "unset", "ok", "notfloat", "out" (outside [0, 1])
\*   vol    --volume: "none", "ok", "out"
\*   snd    --sound-path: "none", "ok", "missing"
\*   dflt   the file at DEFAULT_SOUNDPATH exists
\*   first  which of --sound-path / --volume comes first on the command line
\* get_environment_volume() runs in build_parser(), before any argument is
\* read.  argparse calls an action only for an argument that is given, so the
\* default sound path is never checked.
ParseOutcome(env, vol, snd, dflt, first) ==
    IF env \in {"notfloat", "out"} THEN "env_volume"
    ELSE IF snd = "missing" /\ (vol # "out" \/ first = "sound") THEN "sound_path"
    ELSE IF vol = "out" THEN "volume"
    ELSE "ok"

ParseArgs ==
    /\ MainRuns /\ mpc = "parse"
    /\ \E env \in {"unset", "ok", "notfloat", "out"},
          vol \in {"none", "ok", "out"},
          snd \in {"none", "ok", "missing"},
          dflt \in BOOLEAN,
          first \in {"sound", "volume"},
          cds \in CountdownArgs :
        LET r == ParseOutcome(env, vol, snd, dflt, first) IN
        IF r = "ok"
        THEN /\ mpc' = "check_tty"
             /\ args' = [sound_ok |-> IF snd = "none" THEN dflt ELSE TRUE]
             /\ countdowns' = IF cds = <<>> THEN DefaultCountdowns ELSE cds
             /\ UNCHANGED <<obsVars, frames, exited, exitCode, now, os_handler,
                            cycPos, termVars, sigVars, cdVars, pauseVars,
                            inVars, histVars, scope>>
        \* parser.error() prints the usage and calls sys.exit(2); an uncaught
        \* exception ends the interpreter with status 1
        ELSE StartupDie(r, IF r = "volume" THEN 2 ELSE 1)

\* check_tty(): sys.exit(1) unless stdout is a tty
CheckTty ==
    /\ MainRuns /\ mpc = "check_tty"
    /\ \E is_tty \in BOOLEAN :
        IF is_tty
        THEN /\ mpc' = "check_os"
             /\ UNCHANGED <<obsVars, frames, exited, exitCode, now, cfgVars,
                            termVars, sigVars, cdVars, pauseVars, inVars,
                            histVars, scope>>
        ELSE StartupDie("not_tty", 1)

\* check_os(): linux_handler / darwin_handler return a clean-up callback
\* (outside iTerm darwin_handler returns None, which exit() filters out of
\* extra_funcs: no state of the model depends on it); win32 raises OSError;
\* any other platform calls warn_general() without its argument (TypeError)
CheckOs ==
    /\ MainRuns /\ mpc = "check_os"
    /\ \E platform \in {"linux", "darwin", "win32", "other"} :
        IF platform \in {"win32", "other"}
        THEN StartupDie("unsupported_host", 1)
        ELSE /\ mpc' = "setup"
             /\ os_handler' = "callable"
             /\ UNCHANGED <<obsVars, frames, exited, exitCode, now, args,
                            countdowns, cycPos, termVars, sigVars, cdVars,
                            pauseVars, inVars, histVars, scope>>

(***************************************************************************)
(* main(): setup_terminal(), resize_handler(), signal.signal()             *)
(***************************************************************************)
\* setup_terminal(), lines 76-81: the escape sequences are written
SetupWrite ==
    /\ MainRuns /\ mpc = "setup"
    /\ mpc' = "setup_attrs"
    /\ term' = [term EXCEPT !.alt = TRUE, !.cursor = "hidden"]
    /\ setupCalled' = TRUE
    /\ UNCHANGED <<obsVars, frames, exited, exitCode, now, cfgVars, reset_bound,
                   TERMINAL_SIZE, CHANGED, sigVars, cdVars, pauseVars, inVars,
                   sigHist, resetCalls, excRaised, msgWritten, handlerRaised,
                   startupFail, loopHist, pauseHist, scope>>

\* setup_terminal(), lines 85-104: tcgetattr / tcsetattr either work (echo
\* off, reset_terminal returned, exit_ bound) or raise termios.error, which
\* main()'s try block catches
SetupAttrs ==
    /\ MainRuns /\ mpc = "setup_attrs"
    /\ \E ok \in BOOLEAN :
        IF ok
        THEN /\ mpc' = "resize0"
             /\ term' = [term EXCEPT !.echo = FALSE]
             /\ reset_bound' = TRUE
             /\ UNCHANGED excRaised
        ELSE /\ mpc' = "except"
             /\ excRaised' = "setup_terminal"
             /\ UNCHANGED <<term, reset_bound>>
    /\ UNCHANGED <<obsVars, frames, exited, exitCode, now, cfgVars,
                   TERMINAL_SIZE, CHANGED, sigVars, cdVars, pauseVars, inVars,
                   sigHist, resetCalls, msgWritten, handlerRaised, startupFail,
                   setupCalled, loopHist, pauseHist, scope>>

\* resize_handler(): called by main() at line 545 and by SIGWINCH
resize_handler(s) ==
    /\ TERMINAL_SIZE' = <<s>>
    /\ CHANGED' = TRUE

ResizeCall ==
    /\ MainRuns /\ mpc = "resize0"
    /\ mpc' = "install_winch"
    /\ resize_handler(1)
    /\ UNCHANGED <<obsVars, frames, exited, exitCode, now, cfgVars, term,
                   reset_bound, sigVars, cdVars, pauseVars, inVars, histVars,
                   scope>>

\* signal.signal(signal.SIGWINCH, resize_handler)
InstallWinch ==
    /\ MainRuns /\ mpc = "install_winch"
    /\ mpc' = "install_int"
    /\ sigwinchInstalled' = TRUE
    /\ UNCHANGED <<obsVars, frames, exited, exitCode, now, cfgVars, termVars,
                   sigintInstalled, cdVars, pauseVars, inVars, histVars, scope>>

\* signal.signal(signal.SIGINT, exit_)
InstallInt ==
    /\ MainRuns /\ mpc = "install_int"
    /\ mpc' = "main_loop"
    /\ sigintInstalled' = TRUE
    /\ UNCHANGED <<obsVars, frames, exited, exitCode, now, cfgVars, termVars,
                   sigwinchInstalled, cdVars, pauseVars, inVars, histVars,
                   scope>>

(***************************************************************************)
(* main(): the except block, lines 551-556                                 *)
(***************************************************************************)
\* sys.stderr.write('Exception was raised: ...'.center(TERMINAL_WIDTH)):
\* str.center(None) raises TypeError inside the handler, which nothing
\* catches (exit status 1)
ExceptWrite ==
    /\ MainRuns /\ mpc = "except"
    /\ IF TERMINAL_SIZE = <<>>
       THEN /\ handlerRaised' = TRUE
            /\ Die(1)
            /\ UNCHANGED <<mpc, msgWritten>>
       ELSE /\ msgWritten' = TRUE
            /\ mpc' = "except_exit"
            /\ UNCHANGED <<handlerRaised, exited, exitCode>>
    /\ UNCHANGED <<obsVars, frames, now, cfgVars, termVars, sigVars, cdVars,
                   pauseVars, inVars, sigHist, resetCalls, excRaised,
                   startupFail, setupCalled, loopHist, pauseHist, scope>>

\* The except block calling exit_() with the default code
ExceptExitCodeZero ==
    /\ MainRuns /\ mpc = "except_exit"
    /\ IF reset_bound
       THEN /\ frames' = <<[code |-> 0, pos |-> "try"]>>
            /\ mpc' = "in_exit"
            /\ UNCHANGED <<handlerRaised, exited, exitCode>>
       ELSE /\ handlerRaised' = TRUE
            /\ Die(1)
            /\ UNCHANGED <<mpc, frames>>
    /\ UNCHANGED <<obsVars, now, cfgVars, termVars, sigVars, cdVars, pauseVars,
                   inVars, sigHist, resetCalls, excRaised, msgWritten,
                   startupFail, setupCalled, loopHist, pauseHist, scope>>

\* exit_(code=1): exit_ is unbound (UnboundLocalError) when setup_terminal()
\* raised
ExceptExit ==
    /\ MainRuns /\ mpc = "except_exit"
    /\ IF reset_bound
       THEN /\ frames' = <<[code |-> 1, pos |-> "try"]>>
            /\ mpc' = "in_exit"
            /\ UNCHANGED <<handlerRaised, exited, exitCode>>
       ELSE /\ handlerRaised' = TRUE
            /\ Die(1)
            /\ UNCHANGED <<mpc, frames>>
    /\ UNCHANGED <<obsVars, now, cfgVars, termVars, sigVars, cdVars, pauseVars,
                   inVars, sigHist, resetCalls, excRaised, msgWritten,
                   startupFail, setupCalled, loopHist, pauseHist, scope>>

(***************************************************************************)
(* Signals.  A Python-level handler runs on the main thread, between two   *)
(* of its bytecodes, also while another handler is running.                *)
(***************************************************************************)
\* SIGINT with exit_ installed: a new call exit(reset_terminal, signum, frame)
Sigint ==
    /\ ~exited /\ sigintInstalled
    /\ sigints < MaxSigints
    /\ sigints' = sigints + 1
    /\ frames' = Append(frames, [code |-> 0, pos |-> "try"])
    /\ intInCountdown' = (intInCountdown \/ (frames = <<>> /\ InCountdown))
    /\ UNCHANGED <<obsVars, mpc, exited, exitCode, now, cfgVars, termVars,
                   sigVars, cdVars, pauseVars, inVars, resizes,
                   rendersAfterInt, excHist, loopHist, pauseHist, scope>>

\* SIGINT before line 548 has run: Python's default handler raises
\* KeyboardInterrupt, which `except Exception` does not catch
SigintDefault ==
    /\ ~exited /\ ~sigintInstalled
    /\ sigints < MaxSigints
    /\ sigints' = sigints + 1
    /\ Die(130)
    /\ UNCHANGED <<obsVars, mpc, frames, now, cfgVars, termVars, sigVars,
                   cdVars, pauseVars, inVars, resizes, intInCountdown,
                   rendersAfterInt, excHist, loopHist, pauseHist, scope>>

\* SIGWINCH: resize_handler(signum, frame)
Sigwinch ==
    /\ ~exited /\ sigwinchInstalled
    /\ resizes < MaxResizes
    /\ resizes' = resizes + 1
    /\ \E s \in Sizes : resize_handler(s)
    /\ hPendingResize' = RedrawObserved
    /\ cicClears' = 0
    /\ UNCHANGED <<hBlank, signalHist, mainVars, cfgVars, term, reset_bound,
                   sigVars, cdVars, pauseVars, inVars, sigints, intInCountdown,
                   rendersAfterInt, excHist, loopHist, pauseHist, scope>>

(***************************************************************************)
(* exit(reset_terminal, *args, code=0, extra_funcs=[]), lines 329-340.     *)
(* frames holds the active calls; a frame's pos is the statement it is     *)
(* about to run: "try" (the try body), "finally" (the extra_funcs loop),   *)
(* "reset" (reset_terminal()), "sysexit" (sys.exit(code)).                 *)
(***************************************************************************)
Top == frames[Len(frames)]
Below == SubSeq(frames, 1, Len(frames) - 1)
SetTop(p) == [frames EXCEPT ![Len(frames)].pos = p]

\* The try body: print('', end='\r'); for code 0 'Goodbye!' and the sleep
ExitTry ==
    /\ ~exited /\ frames # <<>> /\ Top.pos = "try"
    /\ frames' = SetTop("finally")
    /\ UNCHANGED <<obsVars, mpc, exited, exitCode, now, cfgVars, termVars,
                   sigVars, cdVars, pauseVars, inVars, histVars, scope>>

\* for extra_func in filter(callable, extra_funcs): extra_func()
ExitExtraFuncs ==
    /\ ~exited /\ frames # <<>> /\ Top.pos = "finally"
    /\ frames' = SetTop("reset")
    /\ UNCHANGED <<obsVars, mpc, exited, exitCode, now, cfgVars, termVars,
                   sigVars, cdVars, pauseVars, inVars, histVars, scope>>

\* reset_terminal(), lines 94-102: show the cursor, restore the screen, leave
\* the alternate screen, restore the saved attributes
ExitResetTerminal ==
    /\ ~exited /\ frames # <<>> /\ Top.pos = "reset"
    /\ frames' = SetTop("sysexit")
    /\ term' = TermNormal
    /\ resetCalls' = resetCalls + 1
    /\ UNCHANGED <<obsVars, mpc, exited, exitCode, now, cfgVars, reset_bound,
                   TERMINAL_SIZE, CHANGED, sigVars, cdVars, pauseVars, inVars,
                   sigHist, excRaised, msgWritten, handlerRaised, startupFail,
                   setupCalled, loopHist, pauseHist, scope>>

\* SystemExit leaving the innermost call propagates through the calls below
\* it (fs): a call still in its try body runs its finally clause; a call
\* already in its finally clause is left.  <<>>: the exception leaves main()
\* (`except Exception` does not catch SystemExit) and ends the process.
RECURSIVE Unwind(_)
Unwind(fs) ==
    IF fs = <<>> THEN <<>>
    ELSE IF fs[Len(fs)].pos = "try"
         THEN [fs EXCEPT ![Len(fs)].pos = "finally"]
         ELSE Unwind(SubSeq(fs, 1, Len(fs) - 1))

\* An exit() whose last statement returns to the interrupted code
ExitSysExitReturns ==
    /\ ~exited /\ frames # <<>> /\ Top.pos = "sysexit"
    /\ frames' = Below
    /\ UNCHANGED <<obsVars, mpc, exited, exitCode, now, cfgVars, termVars,
                   sigVars, cdVars, pauseVars, inVars, histVars, scope>>

\* sys.exit(code)
ExitSysExit ==
    /\ ~exited /\ frames # <<>> /\ Top.pos = "sysexit"
    /\ LET rest == Unwind(Below) IN
        /\ frames' = rest
        /\ IF rest = <<>>
           THEN Die(Top.code)
           ELSE UNCHANGED <<exited, exitCode>>
    /\ UNCHANGED <<obsVars, mpc, now, cfgVars, termVars, sigVars, cdVars,
                   pauseVars, inVars, histVars, scope>>

(***************************************************************************)
(* main_loop(), lines 380-391                                              *)
(***************************************************************************)
\* for countdown_amount in countdowns: the next item of the cycle, then
\* countdown(countdown_amount) up to its first clear_if_changed().  An
\* exhausted iterator runs the else branch ('Out of countdowns!'), main_loop
\* and main() return, and the process ends with status 0.
NextCountdown ==
    /\ MainRuns /\ mpc = "main_loop"
    /\ cycPos < CountdownBudget
    /\ IF Len(countdowns) = 0
       THEN /\ Die(0)
            /\ UNCHANGED <<mpc, cycPos, minutes_total, cicRet, cdLog>>
       ELSE /\ minutes_total' = CycleItem(countdowns, cycPos)
            /\ cycPos' = cycPos + 1
            /\ cdLog' = Append(cdLog, minutes_total')
            /\ mpc' = "cic_test"
            /\ cicRet' = "cd_init"
            /\ UNCHANGED <<exited, exitCode>>
    /\ UNCHANGED <<obsVars, frames, now, args, os_handler, countdowns, termVars,
                   sigVars, start_time, elapsed, branch, pauseVars, inVars,
                   sigHist, excHist, cdDone, soundDone, resetDone, ackTag,
                   pauseHist, scope>>

(***************************************************************************)
(* clear_if_changed(), lines 218-229, in three steps: the test of CHANGED, *)
(* the clear with vertical_pad(), and CHANGED = False                      *)
(***************************************************************************)
InRenderLoop == cicRet = "test"

ClearIfChangedTest ==
    /\ MainRuns /\ mpc = "cic_test"
    /\ mpc' = IF CHANGED THEN "cic_clear" ELSE cicRet
    /\ rendersAfterInt' = (rendersAfterInt \/ (InRenderLoop /\ sigints > 0))
    /\ UNCHANGED <<obsVars, frames, exited, exitCode, now, cfgVars, termVars,
                   sigVars, cdVars, pauseVars, inVars, resizes, sigints,
                   intInCountdown, excHist, loopHist, pauseHist, scope>>

ClearIfChangedClear ==
    /\ MainRuns /\ mpc = "cic_clear"
    /\ mpc' = "cic_reset"
    /\ IF RedrawObserved
       THEN /\ cicClears' = cicClears + 1
            /\ hPendingResize' = FALSE
            /\ hBlank' = (cicRet \in {"cd_init", "test"})
       ELSE UNCHANGED resizeHist
    /\ UNCHANGED <<signalHist, frames, exited, exitCode, now, cfgVars,
                   termVars, sigVars, cdVars, pauseVars, inVars, histVars,
                   scope>>

\* A clear_if_changed() that leaves CHANGED set
ClearIfChangedKeep ==
    /\ MainRuns /\ mpc = "cic_reset"
    /\ mpc' = cicRet
    /\ UNCHANGED <<obsVars, frames, exited, exitCode, now, cfgVars, termVars,
                   sigVars, cdVars, pauseVars, inVars, histVars, scope>>

ClearIfChangedReset ==
    /\ MainRuns /\ mpc = "cic_reset"
    /\ CHANGED' = FALSE
    /\ mpc' = cicRet
    /\ UNCHANGED <<obsVars, frames, exited, exitCode, now, cfgVars, term,
                   reset_bound, TERMINAL_SIZE, sigVars, cdVars, pauseVars,
                   inVars, histVars, scope>>

(***************************************************************************)
(* countdown(minutes_total), lines 282-307                                 *)
(***************************************************************************)
\* The pause tracker of the running countdown
cur == cycPos

\* A countdown() that keeps the tracker of the countdown before it
CountdownInitShared ==
    /\ MainRuns /\ mpc = "cd_init"
    /\ start_time' = now
    /\ pobj' = [pobj EXCEPT ![cur] =
                    IF cur > 1 THEN [pobj[cur - 1] EXCEPT !.alive = TRUE]
                    ELSE FreshPause]
    /\ lpc' = [lpc EXCEPT ![cur] = "outer"]
    /\ mpc' = "poll"
    /\ hPausedAt' = <<>> /\ hPauseSum' = 0 /\ hPairs' = 0 /\ hQuiet' = TRUE
    /\ hUnpaused' = 0
    /\ UNCHANGED <<obsVars, frames, exited, exitCode, now, cfgVars, termVars,
                   sigVars, minutes_total, elapsed, branch, cicRet, inVars,
                   sigHist, excHist, loopHist, eofReads, hToggleAfterEof,
                   scope>>

\* Lines 287-291: start_time, a fresh PauseObject, its pause_thread
CountdownInit ==
    /\ MainRuns /\ mpc = "cd_init"
    /\ start_time' = now
    /\ pobj' = [pobj EXCEPT ![cur] = FreshPause]
    /\ lpc' = [lpc EXCEPT ![cur] = "outer"]
    /\ mpc' = "poll"
    /\ hPausedAt' = <<>> /\ hPauseSum' = 0 /\ hPairs' = 0 /\ hQuiet' = TRUE
    /\ hUnpaused' = 0
    /\ UNCHANGED <<obsVars, frames, exited, exitCode, now, cfgVars, termVars,
                   sigVars, minutes_total, elapsed, branch, cicRet, inVars,
                   sigHist, excHist, loopHist, eofReads, hToggleAfterEof,
                   scope>>

\* poll(), line 263: `if self.paused`
Poll ==
    /\ MainRuns /\ mpc = "poll"
    /\ branch' = IF pobj[cur].paused THEN "paused" ELSE "running"
    /\ mpc' = "event"
    /\ hQuiet' = (Observed => lpc[cur] # "toggle2")
    /\ UNCHANGED <<obsVars, frames, exited, exitCode, now, cfgVars, termVars,
                   sigVars, minutes_total, start_time, elapsed, cicRet,
                   pauseVars, inVars, sigHist, excHist, loopHist, hPausedAt,
                   hPauseSum, hPairs, hUnpaused, eofReads, hToggleAfterEof,
                   scope>>

\* event(), line 256: `if self.state_changed`
Event ==
    /\ MainRuns /\ mpc = "event"
    /\ mpc' = IF pobj[cur].state_changed THEN "event_clear" ELSE "current"
    /\ UNCHANGED <<obsVars, frames, exited, exitCode, now, cfgVars, termVars,
                   sigVars, cdVars, pauseVars, inVars, histVars, scope>>

\* The transition poll() books when it consumes a signal on the branch br
TransitionOf(br) == IF br = "paused" THEN "pause" ELSE "resume"

\* event(), lines 257-258: self.state_changed = False; return True
EventClear ==
    /\ MainRuns /\ mpc = "event_clear"
    /\ pobj' = [pobj EXCEPT ![cur].state_changed = FALSE]
    /\ mpc' = "bookkeep"
    /\ hSigFor' = "none"
    /\ hMisbooked' = (hMisbooked \/ (Observed /\ hSigFor # TransitionOf(branch)))
    /\ UNCHANGED <<resizeHist, hLostSignal, frames, exited, exitCode, now,
                   cfgVars, termVars, sigVars, cdVars, lpc, inVars, histVars,
                   scope>>

\* poll(), line 265 (pause_start = time.time()) or line 269
\* (total_pause_time += current_pause_time)
bookkeep(o, br, t) ==
    IF br = "paused"
    THEN [o EXCEPT !.pause_start = <<t>>]
    ELSE [o EXCEPT !.total_pause_time = o.total_pause_time + o.current_pause_time]

Bookkeep ==
    /\ MainRuns /\ mpc = "bookkeep"
    /\ pobj' = [pobj EXCEPT ![cur] = bookkeep(pobj[cur], branch, now)]
    /\ mpc' = "current"
    /\ UNCHANGED <<obsVars, frames, exited, exitCode, now, cfgVars, termVars,
                   sigVars, cdVars, lpc, inVars, histVars, scope>>

\* poll(), line 266 (current_pause_time = time.time() - pause_start, a
\* TypeError while pause_start is None) or line 270 (current_pause_time = 0)
Current ==
    /\ MainRuns /\ mpc = "current"
    /\ IF branch = "paused" /\ pobj[cur].pause_start = <<>>
       THEN /\ mpc' = "except"
            /\ excRaised' = "countdown"
            /\ UNCHANGED pobj
       ELSE /\ mpc' = "elapsed"
            /\ pobj' = [pobj EXCEPT ![cur].current_pause_time =
                            IF branch = "paused"
                            THEN now - pobj[cur].pause_start[1] ELSE 0]
            /\ UNCHANGED excRaised
    /\ UNCHANGED <<obsVars, frames, exited, exitCode, now, cfgVars, termVars,
                   sigVars, cdVars, lpc, inVars, sigHist, resetCalls,
                   msgWritten, handlerRaised, startupFail, setupCalled,
                   loopHist, pauseHist, scope>>

\* The wall-clock time the running countdown has spent paused up to now
TruePaused ==
    hPauseSum + (IF hPausedAt = <<>> THEN 0 ELSE now - hPausedAt[1])

\* Line 296: elapsed = time.time() - start_time - pause_obj.pause_time()
Elapsed ==
    /\ MainRuns /\ mpc = "elapsed"
    /\ elapsed' = now - start_time - pause_time(pobj[cur])
    /\ mpc' = "print"
    /\ hUnpaused' = IF Observed THEN now - start_time - TruePaused ELSE 0
    /\ UNCHANGED <<obsVars, frames, exited, exitCode, now, cfgVars, termVars,
                   sigVars, minutes_total, start_time, branch, cicRet,
                   pauseVars, inVars, sigHist, excHist, loopHist, hPausedAt,
                   hPauseSum, hPairs, hQuiet, eofReads, hToggleAfterEof,
                   scope>>

\* Lines 297-299: print_time(minutes, seconds, minutes_total, paused)
PrintTime ==
    /\ MainRuns /\ mpc = "print"
    /\ mpc' = "sleep"
    /\ rendersAfterInt' = (rendersAfterInt \/ sigints > 0)
    /\ hBlank' = FALSE
    /\ UNCHANGED <<hPendingResize, cicClears, signalHist, frames, exited,
                   exitCode, now, cfgVars, termVars, sigVars, cdVars,
                   pauseVars, inVars, resizes, sigints, intInCountdown,
                   excHist, loopHist, pauseHist, scope>>

\* Lines 300-302: time.sleep(REFRESH_RATE), then clear_if_changed()
Sleep ==
    /\ MainRuns /\ mpc = "sleep"
    /\ now < Horizon
    /\ now' = now + 1
    /\ mpc' = "cic_test"
    /\ cicRet' = "test"
    /\ UNCHANGED <<obsVars, frames, exited, exitCode, cfgVars, termVars,
                   sigVars, minutes_total, start_time, elapsed, branch,
                   pauseVars, inVars, histVars, scope>>

\* Lines 304-307: on elapsed >= upper_limit, pause_obj.kill() and break
Test ==
    /\ MainRuns /\ mpc = "test"
    /\ IF elapsed >= upper_limit(minutes_total)
       THEN /\ pobj' = [pobj EXCEPT ![cur].alive = FALSE]
            /\ mpc' = "sound"
            /\ cdDone' = cdDone + 1
       ELSE /\ mpc' = "poll"
            /\ UNCHANGED <<pobj, cdDone>>
    /\ UNCHANGED <<obsVars, frames, exited, exitCode, now, cfgVars, termVars,
                   sigVars, cdVars, lpc, inVars, sigHist, excHist, cdLog,
                   soundDone, resetDone, ackTag, pauseHist, scope>>

(***************************************************************************)
(* pause_thread(pause_obj), lines 232-236, one thread per countdown k      *)
(***************************************************************************)
\* `while pause_obj.alive`
ListenerOuter(k) ==
    /\ ~exited /\ lpc[k] = "outer"
    /\ lpc' = [lpc EXCEPT ![k] = IF pobj[k].alive THEN "select" ELSE "dead"]
    /\ UNCHANGED <<obsVars, mainVars, cfgVars, termVars, sigVars, cdVars, pobj,
                   inVars, histVars, scope>>

\* `while sys.stdin in select.select([sys.stdin], [], [], REFRESH_RATE)[0]`:
\* readable when a line waits or the stream is at end-of-file; otherwise the
\* select times out and the outer loop tests alive again
ListenerSelect(k) ==
    /\ ~exited /\ lpc[k] = "select"
    /\ lpc' = [lpc EXCEPT ![k] =
                  IF stdin # <<>> \/ eof THEN "readline" ELSE "outer"]
    /\ UNCHANGED <<obsVars, mainVars, cfgVars, termVars, sigVars, cdVars, pobj,
                   inVars, histVars, scope>>

\* sys.stdin.readline(): takes the first waiting line, or returns '' at
\* end-of-file; blocks while there is neither
ListenerReadline(k) ==
    /\ ~exited /\ lpc[k] = "readline"
    /\ stdin # <<>> \/ (eof /\ eofReads < MaxEofReads)
    /\ IF stdin # <<>>
       THEN stdin' = Tail(stdin) /\ UNCHANGED eofReads
       ELSE UNCHANGED stdin /\ eofReads' = eofReads + 1
    /\ lpc' = [lpc EXCEPT ![k] = "toggle1"]
    /\ UNCHANGED <<obsVars, mainVars, cfgVars, termVars, sigVars, cdVars, pobj,
                   eof, typed, input_list, ipc, promptShown, sigHist, excHist,
                   loopHist, hPausedAt, hPauseSum, hPairs, hQuiet, hUnpaused,
                   hToggleAfterEof, scope>>

\* toggle_pause(), line 252: self.paused = not self.paused
ListenerToggle1(k) ==
    /\ ~exited /\ lpc[k] = "toggle1"
    /\ pobj' = [pobj EXCEPT ![k].paused = ~pobj[k].paused]
    /\ lpc' = [lpc EXCEPT ![k] = "toggle2"]
    /\ hToggleAfterEof' = (hToggleAfterEof \/ eofReads > 0)
    /\ IF Observed /\ k = cur
       THEN /\ hQuiet' = FALSE
            /\ IF pobj[k].paused
               THEN /\ hPauseSum' = hPauseSum + (now - hPausedAt[1])
                    /\ hPausedAt' = <<>>
                    /\ UNCHANGED hPairs
               ELSE /\ hPausedAt' = <<now>>
                    /\ hPairs' = hPairs + 1
                    /\ UNCHANGED hPauseSum
       ELSE UNCHANGED <<hQuiet, hPauseSum, hPausedAt, hPairs>>
    /\ UNCHANGED <<obsVars, mainVars, cfgVars, termVars, sigVars, cdVars,
                   inVars, sigHist, excHist, loopHist, hUnpaused, eofReads,
                   scope>>

\* toggle_pause(), line 253: self.state_changed = True
ListenerToggle2(k) ==
    /\ ~exited /\ lpc[k] = "toggle2"
    /\ pobj' = [pobj EXCEPT ![k].state_changed = TRUE]
    /\ lpc' = [lpc EXCEPT ![k] = "select"]
    /\ hQuiet' = (hQuiet /\ (Observed => k # cur))
    /\ IF Observed /\ k = cur
       THEN /\ hSigFor' = IF pobj[k].paused THEN "pause" ELSE "resume"
            /\ hLostSignal' = (hLostSignal \/ pobj[k].state_changed)
       ELSE UNCHANGED <<hSigFor, hLostSignal>>
    /\ UNCHANGED <<resizeHist, hMisbooked, mainVars, cfgVars, termVars,
                   sigVars, cdVars, inVars, sigHist, excHist, loopHist,
                   hPausedAt, hPauseSum, hPairs, hUnpaused, eofReads,
                   hToggleAfterEof, scope>>

Listener ==
    \E k \in Countdowns :
        \/ ListenerOuter(k)
        \/ ListenerSelect(k)
        \/ ListenerReadline(k)
        \/ ListenerToggle1(k)
        \/ ListenerToggle2(k)

(***************************************************************************)
(* The user at the keyboard                                                *)
(***************************************************************************)
\* A line is typed.  Its tag tells whether the reset prompt of the current
\* cycle was on the screen: the cycle's number if so, 0 otherwise.
UserTypes ==
    /\ ~exited /\ ~eof
    /\ typed < LineBudget
    /\ typed' = typed + 1
    /\ stdin' = Append(stdin, IF promptShown THEN cycPos ELSE 0)
    /\ UNCHANGED <<obsVars, mainVars, cfgVars, termVars, sigVars, cdVars,
                   pauseVars, eof, input_list, ipc, promptShown, histVars,
                   scope>>

\* Standard input reaches end-of-file
StdinEOF ==
    /\ ~exited /\ ~eof
    /\ eof' = TRUE
    /\ UNCHANGED <<obsVars, mainVars, cfgVars, termVars, sigVars, cdVars,
                   pauseVars, stdin, typed, input_list, ipc, promptShown,
                   histVars, scope>>

(***************************************************************************)
(* The phases after a countdown: run_sound, tcflush, reset_loop            *)
(***************************************************************************)
\* run_sound(sound_path, volume), lines 185-192: AudioSegment.from_wav raises
\* FileNotFoundError for a missing file; otherwise play() blocks until the
\* player is done (a tick)
RunSound ==
    /\ MainRuns /\ mpc = "sound"
    /\ IF args.sound_ok
       THEN /\ now < Horizon
            /\ now' = now + 1
            /\ mpc' = "flush"
            /\ soundDone' = soundDone + 1
            /\ UNCHANGED excRaised
       ELSE /\ mpc' = "except"
            /\ excRaised' = "sound_missing"
            /\ UNCHANGED <<now, soundDone>>
    /\ UNCHANGED <<obsVars, frames, exited, exitCode, cfgVars, termVars,
                   sigVars, cdVars, pauseVars, inVars, sigHist, resetCalls,
                   msgWritten, handlerRaised, startupFail, setupCalled, cdLog,
                   cdDone, resetDone, ackTag, pauseHist, scope>>

\* The phase of the run loop the main thread is in
Phase ==
    IF InCountdown THEN "countdown"
    ELSE IF mpc = "sound" THEN "run_sound"
    ELSE IF mpc = "flush" THEN "flush"
    ELSE "reset_loop"

\* A statement of the run loop that does I/O raises an Exception (OSError on
\* a write to the terminal, termios.error from tcflush, a decoding error of
\* the sound file)
FaultPcs == {"print", "sound", "flush", "rl_print"}

Fault ==
    /\ MainRuns /\ mpc \in FaultPcs
    /\ mpc' = "except"
    /\ excRaised' = Phase
    /\ UNCHANGED <<obsVars, frames, exited, exitCode, now, cfgVars, termVars,
                   sigVars, cdVars, pauseVars, inVars, sigHist, resetCalls,
                   msgWritten, handlerRaised, startupFail, setupCalled,
                   loopHist, pauseHist, scope>>

\* termios.tcflush(sys.stdin, termios.TCIOFLUSH), line 387
Flush ==
    /\ MainRuns /\ mpc = "flush"
    /\ stdin' = <<>>
    /\ mpc' = "rl_start"
    /\ UNCHANGED <<obsVars, frames, exited, exitCode, now, cfgVars, termVars,
                   sigVars, cdVars, pauseVars, eof, typed, input_list, ipc,
                   promptShown, histVars, scope>>

\* reset_loop(), lines 355-356: a new input_list and its input_thread
ResetStart ==
    /\ MainRuns /\ mpc = "rl_start"
    /\ input_list' = <<>>
    /\ ipc' = "start"
    /\ mpc' = "rl_clear"
    /\ UNCHANGED <<obsVars, frames, exited, exitCode, now, cfgVars, termVars,
                   sigVars, cdVars, pauseVars, stdin, eof, typed, promptShown,
                   histVars, scope>>

\* Lines 357-363: os.system('clear'), vertical_pad(), then the loop's
\* clear_if_changed()
ResetClear ==
    /\ MainRuns /\ mpc = "rl_clear"
    /\ mpc' = "cic_test"
    /\ cicRet' = "rl_print"
    /\ UNCHANGED <<obsVars, frames, exited, exitCode, now, cfgVars, termVars,
                   sigVars, minutes_total, start_time, elapsed, branch,
                   pauseVars, inVars, histVars, scope>>

\* Lines 364-374: the prompt is printed, then time.sleep(REFRESH_RATE).  The
\* flash phase (even, time_since_flash) only selects the prompt's styling.
ResetPrint ==
    /\ MainRuns /\ mpc = "rl_print"
    /\ now < Horizon
    /\ now' = now + 1
    /\ promptShown' = TRUE
    /\ mpc' = "rl_test"
    /\ UNCHANGED <<obsVars, frames, exited, exitCode, cfgVars, termVars,
                   sigVars, cdVars, pauseVars, stdin, eof, typed, input_list,
                   ipc, histVars, scope>>

\* Lines 376-377: `if len(input_list) > 0: break`, and back in main_loop
ResetTest ==
    /\ MainRuns /\ mpc = "rl_test"
    /\ IF Len(input_list) > 0
       THEN /\ mpc' = "main_loop"
            /\ resetDone' = resetDone + 1
            /\ ackTag' = input_list[1]
            /\ promptShown' = FALSE
            /\ UNCHANGED cicRet
       ELSE /\ mpc' = "cic_test"
            /\ cicRet' = "rl_print"
            /\ UNCHANGED <<resetDone, ackTag, promptShown>>
    /\ UNCHANGED <<obsVars, frames, exited, exitCode, now, cfgVars, termVars,
                   sigVars, minutes_total, start_time, elapsed, branch,
                   pauseVars, stdin, eof, typed, input_list, ipc, sigHist,
                   excHist, cdLog, cdDone, soundDone, pauseHist, scope>>

(***************************************************************************)
(* input_thread(input_recorder), lines 343-345                             *)
(***************************************************************************)
\* sys.stdout.write(ALTERNATE_SCREEN_ENTER)
InputThreadStart ==
    /\ ~exited /\ ipc = "start"
    /\ ipc' = "input"
    /\ term' = [term EXCEPT !.alt = TRUE]
    /\ UNCHANGED <<obsVars, mainVars, cfgVars, reset_bound, TERMINAL_SIZE,
                   CHANGED, sigVars, cdVars, pauseVars, stdin, eof, typed,
                   input_list, promptShown, histVars, scope>>

\* input_recorder.append(input()): input() takes the first waiting line; at
\* end-of-file it raises EOFError and the thread ends
InputThreadRead ==
    /\ ~exited /\ ipc = "input"
    /\ stdin # <<>> \/ eof
    /\ IF stdin # <<>>
       THEN /\ input_list' = Append(input_list, Head(stdin))
            /\ stdin' = Tail(stdin)
            /\ ipc' = "done"
       ELSE /\ ipc' = "dead"
            /\ UNCHANGED <<input_list, stdin>>
    /\ UNCHANGED <<obsVars, mainVars, cfgVars, termVars, sigVars, cdVars,
                   pauseVars, eof, typed, promptShown, histVars, scope>>

(***************************************************************************)
(* Specifications                                                          *)
(***************************************************************************)
Next ==
    \/ ParseArgs \/ CheckTty \/ CheckOs
    \/ SetupWrite \/ SetupAttrs \/ ResizeCall \/ InstallWinch \/ InstallInt
    \/ ExceptWrite \/ ExceptExit
    \/ Sigint \/ SigintDefault \/ Sigwinch
    \/ ExitTry \/ ExitExtraFuncs \/ ExitResetTerminal \/ ExitSysExit
    \/ NextCountdown
    \/ ClearIfChangedTest \/ ClearIfChangedClear \/ ClearIfChangedReset
    \/ CountdownInit \/ Poll \/ Event \/ EventClear \/ Bookkeep \/ Current
    \/ Elapsed \/ PrintTime \/ Sleep \/ Test
    \/ Listener
    \/ UserTypes
    \/ RunSound \/ Fault \/ Flush
    \/ ResetStart \/ ResetClear \/ ResetPrint \/ ResetTest
    \/ InputThreadStart \/ InputThreadRead

Spec == Init /\ [][Next]_vars

\* The state main() is in when it calls main_loop (line 550), for one
\* configured duration
InitPause ==
    /\ InitCommon
    /\ scope = "pause"
    /\ mpc = "main_loop"
    /\ args = [sound_ok |-> TRUE] /\ os_handler = "callable"
    /\ countdowns \in PauseCountdownArgs
    /\ term = [alt |-> TRUE, cursor |-> "hidden", echo |-> FALSE]
    /\ reset_bound = TRUE
    /\ TERMINAL_SIZE = <<1>> /\ CHANGED = TRUE
    /\ sigintInstalled = TRUE /\ sigwinchInstalled = TRUE
    /\ setupCalled = TRUE

\* The state main() is in when it calls main_loop, for the durations
\* SpecCycle runs
InitCycle ==
    /\ InitCommon
    /\ scope = "cycle"
    /\ mpc = "main_loop"
    /\ args = [sound_ok |-> TRUE] /\ os_handler = "callable"
    /\ countdowns \in CycleCountdownArgs
    /\ term = [alt |-> TRUE, cursor |-> "hidden", echo |-> FALSE]
    /\ reset_bound = TRUE
    /\ TERMINAL_SIZE = <<1>> /\ CHANGED = TRUE
    /\ sigintInstalled = TRUE /\ sigwinchInstalled = TRUE
    /\ setupCalled = TRUE

\* main_loop and its threads, with no signal and no fault
NextCycle ==
    \/ NextCountdown
    \/ ClearIfChangedTest \/ ClearIfChangedClear \/ ClearIfChangedReset
    \/ CountdownInit \/ Poll \/ Event \/ EventClear \/ Bookkeep \/ Current
    \/ Elapsed \/ PrintTime \/ Sleep \/ Test
    \/ Listener
    \/ UserTypes
    \/ RunSound \/ Flush
    \/ ResetStart \/ ResetClear \/ ResetPrint \/ ResetTest
    \/ InputThreadStart \/ InputThreadRead

SpecCycle == InitCycle /\ [][NextCycle]_vars

\* One countdown, its listener and the keyboard
NextPause ==
    \/ NextCountdown
    \/ ClearIfChangedTest \/ ClearIfChangedClear \/ ClearIfChangedReset
    \/ CountdownInit \/ Poll \/ Event \/ EventClear \/ Bookkeep \/ Current
    \/ Elapsed \/ PrintTime \/ Sleep \/ Test
    \/ Listener
    \/ UserTypes \/ StdinEOF

SpecPause == InitPause /\ [][NextPause]_vars

\* The state main() is in when it calls main_loop, with CHANGED still set by
\* the resize_handler() call of line 545
InitResize ==
    /\ InitCommon
    /\ scope = "resize"
    /\ mpc = "main_loop"
    /\ args = [sound_ok |-> TRUE] /\ os_handler = "callable"
    /\ countdowns \in ResizeCountdownArgs
    /\ term = [alt |-> TRUE, cursor |-> "hidden", echo |-> FALSE]
    /\ reset_bound = TRUE
    /\ TERMINAL_SIZE = <<1>> /\ CHANGED = TRUE
    /\ sigintInstalled = TRUE /\ sigwinchInstalled = TRUE
    /\ setupCalled = TRUE

\* main_loop, its threads and the SIGWINCH handler
NextResize ==
    \/ NextCycle
    \/ Sigwinch

SpecResize == InitResize /\ [][NextResize]_vars

(***************************************************************************)
(* Properties                                                              *)
(***************************************************************************)
\* C1: on every termination path after setup_terminal() has returned and the
\* handlers are installed (SIGINT during the countdown, the sound, the reset
\* loop or a running exit(); an Exception escaping main_loop; main_loop
\* returning), reset_terminal has been called exactly once when the process
\* ends, and never more than once at any time.
C1_ResetExactlyOnce ==
    /\ resetCalls <= 1
    /\ (exited /\ sigintInstalled) => resetCalls = 1

\* C2: for every interleaving of the listener's toggles with the render
\* loop's steps, the countdown does not complete before the unpaused
\* wall-clock time since its start has reached the total.  The tolerance
\* granted here is two ticks per pause (the claim grants one): one for the
\* poll that notices the pause, one for the poll that notices the resume.
C2_NoEarlyCompletion ==
    (scope = "pause" /\ mpc = "sound")
        => hUnpaused + 2 * hPairs >= upper_limit(minutes_total)

\* A poll() has just finished on the running branch, with the tracker
\* resumed, no toggle in progress or made since the poll began and no signal
\* left to consume: the resume has been polled.
ResumePolled ==
    /\ scope = "pause" /\ mpc = "elapsed" /\ branch = "running"
    /\ ~pobj[cur].paused /\ ~pobj[cur].state_changed
    /\ hQuiet /\ hPausedAt = <<>> /\ hPairs > 0

\* C3: once the tracker is resumed and the resume has been polled,
\* pause_time() equals the sum of the wall-clock durations of the
\* pause/resume pairs, within two ticks per pair (the claim grants one).
C3_PauseTimeIsSum ==
    ResumePolled =>
        /\ hPauseSum - pause_time(pobj[cur]) <= 2 * hPairs
        /\ pause_time(pobj[cur]) - hPauseSum <= 2 * hPairs

\* C4: when SIGINT is delivered while countdown() is running, the handler
\* stays active until the process ends, the process ends with status 0, and
\* no render step (print_time, clear_if_changed of the render loop) runs once
\* a SIGINT handler has started.
C4_InterruptInCountdown ==
    /\ ~rendersAfterInt
    /\ (intInCountdown /\ ~exited) => frames # <<>>
    /\ (intInCountdown /\ exited) => exitCode = 0

C4_Witness ==
    intInCountdown /\ exited /\ exitCode = 0 /\ resetCalls = 1
    /\ mpc \in {"print", "sleep", "test"}

\* The phases of the run loop in which an Exception can reach main()
RunLoopPhases == {"countdown", "run_sound", "flush", "reset_loop", "sound_missing"}

\* C5: an Exception raised on the main thread during the run loop is caught
\* by main(): when the process has ended, reset_terminal has been called
\* and, unless a user interrupt cut the handling short, the message has been
\* written, reset_terminal has been called once and the status is 1; a
\* status of 0 is reached only after a user interrupt.
C5_ExceptionExit ==
    /\ (exited /\ excRaised \in RunLoopPhases) =>
            /\ resetCalls >= 1
            /\ sigints = 0 => (msgWritten /\ exitCode = 1 /\ resetCalls = 1)
    /\ (exited /\ exitCode = 0) => sigints > 0

C5_Witness ==
    /\ exited /\ excRaised = "countdown" /\ sigints = 0
    /\ msgWritten /\ exitCode = 1 /\ resetCalls = 1 /\ term = TermNormal

\* The phases of cycle k follow each other: sound k after countdown k,
\* reset loop k after sound k, countdown k+1 after reset loop k
PhaseOrder ==
    /\ cdDone \in {cycPos - 1, cycPos} /\ cycPos = Len(cdLog)
    /\ soundDone \in {cdDone - 1, cdDone}
    /\ resetDone \in {soundDone - 1, soundDone}
    /\ InCountdown => (cdDone = cycPos - 1 /\ resetDone = cycPos - 1)
    /\ mpc = "sound" => (cdDone = cycPos /\ soundDone = cycPos - 1)
    /\ mpc \in {"flush", "rl_start", "rl_clear", "rl_print", "rl_test"}
            => (soundDone = cycPos /\ resetDone = cycPos - 1)
    /\ mpc = "main_loop" => resetDone = cycPos

\* C6: the phases of each cycle occur in the order countdown, sound, reset
\* prompt, next countdown, and the line that ends reset loop k was typed
\* while the prompt of cycle k was on the screen (input typed before the
\* prompt is shown does not acknowledge it).
C6_PhaseOrderAndAck ==
    /\ PhaseOrder
    /\ resetDone > 0 => ackTag = resetDone

\* C7: the k-th countdown started runs with the (k mod n)-th configured
\* duration, in the given order and cyclically, and the 'Out of countdowns!'
\* branch (the only way this specification ends the process) is not reached.
C7_CyclicOrder ==
    /\ ~exited
    /\ Len(cdLog) = cycPos
    /\ \A k \in 1..Len(cdLog) :
            cdLog[k] = countdowns[((k - 1) % Len(countdowns)) + 1]
    /\ cycPos > 0 => minutes_total = cdLog[cycPos]

C7_Witness ==
    /\ Len(cdLog) = 3 /\ Len(countdowns) = 2
    /\ countdowns[1] # countdowns[2]
    /\ cdLog = <<countdowns[1], countdowns[2], countdowns[1]>>
    /\ mpc = "poll"

\* C8: once the listener's readline() has returned at end-of-file, the
\* listener changes the pause state no more.
C8_EofStopsListener == ~hToggleAfterEof

\* C9: every start-up validation failure ends the process with status 1
\* before setup_terminal() is entered, and a missing sound file is never
\* first discovered by run_sound, after a countdown.
C9_StartupValidation ==
    /\ startupFail # "none" => (exited /\ exitCode = 1 /\ ~setupCalled)
    /\ excRaised # "sound_missing"

\* C10: if setup_terminal() raises after writing the alternate-screen and
\* hide-cursor sequences, then (with no interrupt) the process ends with the
\* cursor shown and the alternate screen left, and main()'s except block
\* does not itself raise.
C10_PartialSetupRestored ==
    (exited /\ excRaised = "setup_terminal" /\ sigints = 0)
        => (term.cursor = "shown" /\ ~term.alt /\ ~handlerRaised)

\* C11: each countdown starts with a fresh pause tracker, and a tracker is
\* changed only by the render loop of its own countdown and by its own
\* listener: no step of the listener of another countdown, and no state an
\* earlier countdown left behind, changes it.
C11_FreshTracker ==
    [][/\ (mpc = "cd_init" /\ mpc' = "poll") => pobj'[cycPos] = FreshPause
       /\ \A k \in Countdowns :
            pobj'[k] # pobj[k] =>
                \/ lpc'[k] # lpc[k]
                \/ (k = cycPos /\ mpc' # mpc)]_vars

C11_Witness ==
    /\ cycPos = 2 /\ mpc = "elapsed"
    /\ pobj[1].paused /\ ~pobj[1].alive /\ lpc[1] = "toggle2"
    /\ pobj[2] = FreshPause

\* C12: after kill() the listener exits its loop without further input.  Its
\* safety part: a listener whose tracker has been killed is never blocked in
\* readline() with nothing to read, a state it leaves only when further
\* input arrives.
C12_ListenerExits ==
    \A k \in Countdowns :
        ~(/\ ~pobj[k].alive /\ lpc[k] = "readline"
          /\ stdin = <<>> /\ ~eof)

\* reset_loop() has started its input_thread and has not returned
InResetLoop ==
    \/ mpc \in {"rl_clear", "rl_print", "rl_test"}
    \/ mpc \in {"cic_test", "cic_clear", "cic_reset"} /\ cicRet = "rl_print"

\* C14: while reset_loop() runs with its reader, no pause_thread of an
\* earlier countdown is still running, and a line typed while the reset
\* prompt is shown is never taken by a pause listener.
C14_NoListenerInReset ==
    /\ [](InResetLoop => \A k \in Countdowns : lpc[k] \in {"unborn", "dead"})
    /\ [][\A k \in Countdowns :
            (lpc[k] = "readline" /\ lpc'[k] = "toggle1" /\ stdin # <<>>)
                => Head(stdin) = 0]_vars

\* poll() has finished, no toggle step has run since it began and no signal
\* is left to consume
PollSettled ==
    /\ scope = "pause" /\ mpc = "elapsed"
    /\ hQuiet /\ ~pobj[cur].state_changed

\* C15: pause_start is set if and only if paused is true.  Stated for the
\* settled states only (a toggle that no poll has seen yet cannot have set
\* or cleared it).
C15_PauseStartIffPaused ==
    PollSettled => ((pobj[cur].pause_start # <<>>) <=> pobj[cur].paused)

\* C16: every toggle's signal stays until a poll() consumes it, none
\* overwrites a signal not yet consumed, and the poll() that consumes a
\* signal books the transition the signal stands for.
C16_SignalOnce == ~hLostSignal /\ ~hMisbooked

\* C18: when poll() is on its paused branch and computes now - pause_start,
\* pause_start is set, and it is not older than the current pause.
C18_PollNeverFails ==
    (scope = "pause" /\ mpc = "current" /\ branch = "paused") =>
        /\ pobj[cur].pause_start # <<>>
        /\ hPausedAt # <<>> => pobj[cur].pause_start[1] >= hPausedAt[1]

\* C19: over the ticks of one countdown the elapsed value the render loop
\* computes is never negative and never smaller than the one of the tick
\* before.
C19_ElapsedMonotone ==
    [][(mpc = "elapsed" /\ mpc' = "print") =>
            (elapsed' >= 0 /\ elapsed' >= elapsed)]_vars

\* C13: CHANGED is set only by a resize notification and cleared only by
\* clear_if_changed(), and calls of clear_if_changed() with no resize
\* notification between them clear the screen at most once.
C13_RedrawFlag ==
    /\ [](cicClears <= 1)
    /\ [][/\ (~CHANGED /\ CHANGED') => resizes' = resizes + 1
          /\ (CHANGED /\ ~CHANGED') => (mpc = "cic_reset" /\ mpc' = cicRet)]_vars

C13_Witness ==
    /\ scope = "resize" /\ resizes = 1 /\ cicClears = 1
    /\ ~CHANGED /\ ~hBlank /\ mpc = "test"

\* C17: a screen clear of the render loop is followed by a print of the
\* time line before countdown() ends: the cleared screen is never left
\* without the time line at completion.  (A poll() that raises ends the
\* countdown otherwise; that case is left out here.)
C17_ClearThenPrint == (hBlank /\ excRaised = "none") => InCountdown

\* C20: no resize notification is lost.  Its safety part: while a
\* notification waits for a clear that uses its size, CHANGED is set (with
\* CHANGED false no clear follows unless another notification arrives).
C20_NoResizeLost == hPendingResize => CHANGED

====
